---- MODULE Spec2Model ----
(***************************************************************************)
(* Request processing of the Django test project                           *)
(* test-projects/backend/04-django-python: the settings module             *)
(* (myproject/settings.py) and the URL configuration with its two views    *)
(* (myproject/urls.py).                                                    *)
(*                                                                         *)
(* Strings the code inspects piecewise (request paths, Host and Origin     *)
(* header values) are sequences of tokens, so that prefix tests, slash     *)
(* stripping and slash appending are computed, not assumed.  A token is    *)
(* an atomic run of characters; no token is a concatenation of others.     *)
(***************************************************************************)
EXTENDS Integers, Sequences, FiniteSets, TLC

(***************************************************************************)
(* Bounds of the model                                                     *)
(***************************************************************************)
MaxPathLen == 4
NumWorkers == 2

(***************************************************************************)
(* settings.py                                                             *)
(***************************************************************************)
DEBUG == TRUE

ALLOWED_HOSTS_localhost == <<"localhost">>
ALLOWED_HOSTS == <<"*">>

INSTALLED_APPS ==
    <<"django.contrib.contenttypes", "django.contrib.staticfiles",
      "rest_framework", "corsheaders">>

MIDDLEWARE_reversed ==
    <<"django.middleware.common.CommonMiddleware",
      "corsheaders.middleware.CorsMiddleware">>
MIDDLEWARE ==
    <<"corsheaders.middleware.CorsMiddleware",
      "django.middleware.common.CommonMiddleware">>

ROOT_URLCONF == "myproject.urls"

CORS_ALLOW_ALL_ORIGINS_off == FALSE
CORS_ALLOW_ALL_ORIGINS == TRUE

\* 'static/' : no leading slash in the settings file
STATIC_URL_media == <<"media", "/">>
STATIC_URL == <<"static", "/">>

\* The settings object as the framework sees it after loading the module.
\* Settings the module does not assign keep the framework's defaults.
Settings ==
    [DEBUG                  |-> DEBUG,
     ALLOWED_HOSTS          |-> ALLOWED_HOSTS,
     INSTALLED_APPS         |-> INSTALLED_APPS,
     MIDDLEWARE             |-> MIDDLEWARE,
     ROOT_URLCONF           |-> ROOT_URLCONF,
     CORS_ALLOW_ALL_ORIGINS |-> CORS_ALLOW_ALL_ORIGINS,
     STATIC_URL             |-> STATIC_URL,
     APPEND_SLASH           |-> TRUE,
     PREPEND_WWW            |-> FALSE,
     CORS_ALLOW_CREDENTIALS |-> FALSE,
     CORS_ALLOWED_ORIGINS   |-> {}]

(***************************************************************************)
(* Values of the model                                                     *)
(***************************************************************************)
NoValue == "<none>"

\* an absent header whose value, when present, is a sequence of tokens
NoHeader == <<"<none>">>

SeqsUpTo(S, n) == UNION {[1..k -> S] : k \in 0..n}

IsPrefix(p, s) == Len(p) <= Len(s) /\ SubSeq(s, 1, Len(p)) = p

Range(s) == {s[k] : k \in 1..Len(s)}

PathTokens == {"/", "health", "static", "x"}

\* every request path starts with a slash
Paths == {<<"/">> \o s : s \in SeqsUpTo(PathTokens, MaxPathLen - 1)}

Methods == {"GET", "HEAD", "POST", "OPTIONS"}

\* Host header values: a name, a name with a port, a name with a character
\* outside [a-z0-9.-], and the empty value
Hosts ==
    {<<"localhost">>, <<"evil.test">>, <<"localhost", ":", "8000">>,
     <<"bad", "_", "host">>, <<>>}

\* Origin header: absent, empty, two URLs, a URL with an unbalanced bracket
Origins ==
    {NoHeader, <<>>, <<"https://", "app.test">>, <<"http://", "[", "::1", "]">>,
     <<"http://", "[", "app.test">>}

Requests ==
    [method : Methods, path : Paths, host : Hosts, origin : Origins,
     acrm : BOOLEAN]

\* the requests the concurrent specification draws from
CoreRequests ==
    {r \in Requests :
        /\ \/ r.method = "GET"
              /\ r.path \in {<<"/">>, <<"/", "health", "/">>,
                             <<"/", "health">>, <<"/", "static", "/", "x">>}
           \/ r.method = "POST" /\ r.path = <<"/", "health", "/">>
        /\ r.host = <<"localhost">>
        /\ r.origin = NoHeader
        /\ r.acrm = FALSE}

Workers == 1..NumWorkers

\* files the staticfiles finders locate, relative to the static root
StaticAssets == {<<"x">>}

(***************************************************************************)
(* Responses                                                               *)
(***************************************************************************)
\* django.http.HttpResponse: the fields the middleware and the claims read
HttpResponse(status, ctype, content) ==
    [status       |-> status,
     ctype        |-> ctype,
     content      |-> content,
     location     |-> NoHeader,
     allow_origin |-> NoHeader,
     vary         |-> NoValue,
     has_length   |-> FALSE]

NoResponse == HttpResponse(0, NoValue, NoValue)

\* json.dumps of a dict of string keys and string values, given as a
\* sequence of <<key, value>> pairs in insertion order
RECURSIVE json_items(_)
json_items(data) ==
    IF data = <<>> THEN ""
    ELSE "\"" \o data[1][1] \o "\": \"" \o data[1][2] \o "\""
         \o (IF Len(data) > 1 THEN ", " ELSE "")
         \o json_items(Tail(data))

json_dumps(data) == "{" \o json_items(data) \o "}"

JsonResponse_html(data) == HttpResponse(200, "text/html", json_dumps(data))
JsonResponse(data) == HttpResponse(200, "application/json", json_dumps(data))

(***************************************************************************)
(* urls.py                                                                 *)
(***************************************************************************)
home_other(request) ==
    JsonResponse(<<<<"message", "Django Python API">>>>)
home_require_GET(request) ==
    IF request.method \in {"GET", "HEAD"}
    THEN JsonResponse(<<<<"message",
                          "Django Python API - Testing Auto-Docker Extension">>>>)
    ELSE HttpResponse(405, "text/html", "")
home(request) ==
    JsonResponse(<<<<"message",
                     "Django Python API - Testing Auto-Docker Extension">>>>)

health_ok(request) == JsonResponse(<<<<"status", "ok">>>>)
health(request) == JsonResponse(<<<<"status", "healthy">>>>)

\* path(route, view): the route and the name of the view function
path(route, view) == [route |-> route, view |-> view]

UrlPatterns == <<path(<<>>, "home"), path(<<"health", "/">>, "health")>>

\* calling the view function a pattern names
CallView(view, request) ==
    IF view = "home" THEN home(request) ELSE health(request)

(***************************************************************************)
(* URL resolution over urlpatterns                                         *)
(***************************************************************************)
\* path() routes match the whole remaining path (the pattern ends in \Z)
route_matches_prefix(route, rest) == IsPrefix(route, rest)
route_matches(route, rest) == route = rest

\* The resolver strips the leading slash and tries the patterns in order.
\* The result is the view's name, or NoValue for Resolver404.
RECURSIVE resolve_from(_, _, _)
resolve_from(patterns, k, rest) ==
    IF k > Len(patterns) THEN NoValue
    ELSE IF route_matches(patterns[k].route, rest) THEN patterns[k].view
    ELSE resolve_from(patterns, k + 1, rest)

resolve(patterns, path_info) ==
    IF path_info # <<>> /\ Head(path_info) = "/"
    THEN resolve_from(patterns, 1, Tail(path_info))
    ELSE NoValue

is_valid_path(patterns, path_info) == resolve(patterns, path_info) # NoValue

(***************************************************************************)
(* Framework responses for errors                                          *)
(***************************************************************************)
\* Resolver404 / Http404: the default not-found response
HttpResponseNotFound == HttpResponse(404, "text/html", "<not found>")

\* DisallowedHost is a SuspiciousOperation: answered 400
HttpResponseBadRequest == HttpResponse(400, "text/html", "<bad request>")

\* any other uncaught exception: answered 500
HttpResponseServerError == HttpResponse(500, "text/html", "<server error>")

HttpResponsePermanentRedirect(to) ==
    [HttpResponse(301, "text/html", "") EXCEPT !.location = to]

(***************************************************************************)
(* Host header: request.get_host() under ALLOWED_HOSTS                     *)
(***************************************************************************)
\* tokens made of characters of [a-z0-9.-] only, and those of [0-9] only
NameTokens == {"localhost", "evil.test", "bad", "host", "8000"}
DigitTokens == {"8000"}

has_port(host) ==
    /\ Len(host) >= 2
    /\ host[Len(host) - 1] = ":"
    /\ host[Len(host)] \in DigitTokens

\* split_domain_port: the domain, or the empty string when the value is
\* not of the form name[:port]
split_domain_port(host) ==
    LET domain == IF has_port(host) THEN SubSeq(host, 1, Len(host) - 2)
                  ELSE host
    IN  IF domain # <<>> /\ Range(domain) \subseteq NameTokens
        THEN domain ELSE <<>>

\* is_same_domain for patterns without a leading dot
is_same_domain(domain, pattern) == domain = <<pattern>>

validate_host(domain, allowed_hosts) ==
    \E k \in 1..Len(allowed_hosts) :
        \/ allowed_hosts[k] = "*"
        \/ is_same_domain(domain, allowed_hosts[k])

\* TRUE when get_host() returns, FALSE when it raises DisallowedHost
get_host_ok(request, conf) ==
    LET allowed == IF conf.DEBUG /\ conf.ALLOWED_HOSTS = <<>>
                   THEN <<"localhost", "127.0.0.1", "[::1]">>
                   ELSE conf.ALLOWED_HOSTS
        domain  == split_domain_port(request.host)
    IN  domain # <<>> /\ validate_host(domain, allowed)

(***************************************************************************)
(* Static files: STATIC_URL and the development server's handler           *)
(***************************************************************************)
\* a relative STATIC_URL is prefixed with the script prefix, which is "/"
add_script_prefix(value) ==
    IF value # <<>> /\ Head(value) \in {"/", "http://", "https://"}
    THEN value
    ELSE <<"/">> \o value

static_url(conf) == add_script_prefix(conf.STATIC_URL)

\* the staticfiles app replaces the development server's handler by
\* StaticFilesHandler when DEBUG is on; other servers run the plain handler
uses_static_handler(srv, conf) ==
    /\ srv = "runserver"
    /\ "django.contrib.staticfiles" \in Range(conf.INSTALLED_APPS)
    /\ conf.DEBUG

should_handle(path_info, conf) == IsPrefix(static_url(conf), path_info)

static_serve(path_info, conf) ==
    LET base == static_url(conf)
        rel  == SubSeq(path_info, Len(base) + 1, Len(path_info))
    IN  IF rel \in StaticAssets
        THEN HttpResponse(200, "application/octet-stream", "<asset>")
        ELSE HttpResponseNotFound

(***************************************************************************)
(* corsheaders.middleware.CorsMiddleware                                   *)
(***************************************************************************)
\* CORS_URLS_REGEX keeps its default, which enables CORS on every path
is_preflight(request) == request.method = "OPTIONS" /\ request.acrm

preflight_response == [HttpResponse(200, "text/html", "") EXCEPT
                          !.has_length = TRUE]

\* urlsplit raises ValueError on an unbalanced bracket
urlsplit_fails(origin) ==
    ("[" \in Range(origin)) # ("]" \in Range(origin))

add_response_headers(request, response, conf) ==
    LET varied == [response EXCEPT !.vary = "origin"]
        origin == request.origin
    IN  IF origin = NoHeader \/ origin = <<>> THEN varied
        ELSE IF urlsplit_fails(origin) THEN varied
        ELSE IF ~conf.CORS_ALLOW_ALL_ORIGINS
                /\ origin \notin conf.CORS_ALLOWED_ORIGINS THEN varied
        ELSE IF conf.CORS_ALLOW_ALL_ORIGINS /\ ~conf.CORS_ALLOW_CREDENTIALS
             THEN [varied EXCEPT !.allow_origin = <<"*">>]
             ELSE [varied EXCEPT !.allow_origin = origin]

(***************************************************************************)
(* django.middleware.common.CommonMiddleware                               *)
(***************************************************************************)
UnsafeMethods == {"DELETE", "POST", "PUT", "PATCH"}

should_redirect_with_slash(request, conf, patterns) ==
    /\ conf.APPEND_SLASH
    /\ request.path[Len(request.path)] # "/"
    /\ ~is_valid_path(patterns, request.path)
    /\ is_valid_path(patterns, Append(request.path, "/"))

\* process_response: the slash redirect for a 404 whose path with a slash
\* appended is routed (RuntimeError, hence 500, for a method that carries
\* data while DEBUG is on), else the Content-Length header
common_process_response(request, response, conf, patterns) ==
    IF response.status = 404
       /\ should_redirect_with_slash(request, conf, patterns)
    THEN IF conf.DEBUG /\ request.method \in UnsafeMethods
         THEN HttpResponseServerError
         ELSE HttpResponsePermanentRedirect(Append(request.path, "/"))
    ELSE [response EXCEPT !.has_length = TRUE]

(***************************************************************************)
(* State                                                                   *)
(***************************************************************************)
VARIABLES
    settings,       \* the loaded settings module
    urlpatterns,    \* the module-level list of myproject.urls
    server,         \* how the project is hosted: "runserver" or "wsgi"
    req,            \* per worker: the request being served
    pc,             \* per worker: "idle", "recv", "in", "out", "sent"
    idx,            \* per worker: position in settings.MIDDLEWARE
    resp,           \* per worker: the response so far
    trace           \* per worker: the steps that have run for the request

vars == <<settings, urlpatterns, server, req, pc, idx, resp, trace>>

NoRequest == [method |-> NoValue, path |-> <<>>, host |-> <<>>,
              origin |-> NoHeader, acrm |-> FALSE]

CorsMiddleware == "corsheaders.middleware.CorsMiddleware"
CommonMiddleware == "django.middleware.common.CommonMiddleware"

Init ==
    /\ settings = Settings
    /\ urlpatterns = UrlPatterns
    /\ server \in {"runserver", "wsgi"}
    /\ req = [i \in Workers |-> NoRequest]
    /\ pc = [i \in Workers |-> "idle"]
    /\ idx = [i \in Workers |-> 0]
    /\ resp = [i \in Workers |-> NoResponse]
    /\ trace = [i \in Workers |-> <<>>]

(***************************************************************************)
(* Steps of one request                                                    *)
(***************************************************************************)
\* a request from the set R arrives at an idle worker
Receive(i, R) ==
    /\ pc[i] = "idle"
    /\ \E r \in R : req' = [req EXCEPT ![i] = r]
    /\ pc' = [pc EXCEPT ![i] = "recv"]
    /\ resp' = [resp EXCEPT ![i] = NoResponse]
    /\ trace' = [trace EXCEPT ![i] = <<>>]
    /\ UNCHANGED <<settings, urlpatterns, server, idx>>

\* StaticFilesHandler answers a path under the static prefix itself; it
\* loads no middleware
ServeStatic(i) ==
    /\ pc[i] = "recv"
    /\ uses_static_handler(server, settings)
    /\ should_handle(req[i].path, settings)
    /\ resp' = [resp EXCEPT ![i] = static_serve(req[i].path, settings)]
    /\ trace' = [trace EXCEPT ![i] = <<"static">>]
    /\ pc' = [pc EXCEPT ![i] = "sent"]
    /\ UNCHANGED <<settings, urlpatterns, server, req, idx>>

\* every other request enters the middleware chain at its first entry
EnterChain(i) ==
    /\ pc[i] = "recv"
    /\ ~(uses_static_handler(server, settings)
         /\ should_handle(req[i].path, settings))
    /\ pc' = [pc EXCEPT ![i] = "in"]
    /\ idx' = [idx EXCEPT ![i] = 1]
    /\ UNCHANGED <<settings, urlpatterns, server, req, resp, trace>>

\* CorsMiddleware on the way in: a preflight request is answered here and
\* the middleware adds its headers to that answer; any other request goes on
CorsIn(i) ==
    /\ pc[i] = "in"
    /\ idx[i] <= Len(settings.MIDDLEWARE)
    /\ settings.MIDDLEWARE[idx[i]] = CorsMiddleware
    /\ trace' = [trace EXCEPT ![i] = Append(@, "cors_in")]
    /\ IF is_preflight(req[i])
       THEN /\ resp' = [resp EXCEPT ![i] = preflight_response]
            /\ pc' = [pc EXCEPT ![i] = "out"]
            /\ idx' = idx
       ELSE /\ idx' = [idx EXCEPT ![i] = @ + 1]
            /\ UNCHANGED <<resp, pc>>
    /\ UNCHANGED <<settings, urlpatterns, server, req>>

\* CommonMiddleware.process_request: get_host() raises DisallowedHost for
\* a Host value it does not accept; the exception becomes a 400 response
\* that skips this middleware's process_response
CommonIn(i) ==
    /\ pc[i] = "in"
    /\ idx[i] <= Len(settings.MIDDLEWARE)
    /\ settings.MIDDLEWARE[idx[i]] = CommonMiddleware
    /\ trace' = [trace EXCEPT ![i] = Append(@, "common_in")]
    /\ IF get_host_ok(req[i], settings)
       THEN /\ idx' = [idx EXCEPT ![i] = @ + 1]
            /\ UNCHANGED <<resp, pc>>
       ELSE /\ resp' = [resp EXCEPT ![i] = HttpResponseBadRequest]
            /\ pc' = [pc EXCEPT ![i] = "out"]
            /\ idx' = [idx EXCEPT ![i] = @ - 1]
    /\ UNCHANGED <<settings, urlpatterns, server, req>>

\* a view that removes its own route from the module-level list
GetResponse_pop(i) ==
    /\ pc[i] = "in"
    /\ idx[i] = Len(settings.MIDDLEWARE) + 1
    /\ LET view == resolve(urlpatterns, req[i].path)
       IN  IF view = NoValue
           THEN /\ resp' = [resp EXCEPT ![i] = HttpResponseNotFound]
                /\ trace' = [trace EXCEPT ![i] = Append(@, "resolver404")]
                /\ UNCHANGED urlpatterns
           ELSE /\ resp' = [resp EXCEPT ![i] = CallView(view, req[i])]
                /\ trace' = [trace EXCEPT ![i] = Append(@, view)]
                /\ urlpatterns' = SelectSeq(urlpatterns,
                                            LAMBDA p : p.view # view)
    /\ pc' = [pc EXCEPT ![i] = "out"]
    /\ idx' = [idx EXCEPT ![i] = Len(settings.MIDDLEWARE)]
    /\ UNCHANGED <<settings, server, req>>

\* past the last middleware: resolve the path over urlpatterns and call
\* the view, or answer not-found
GetResponse(i) ==
    /\ pc[i] = "in"
    /\ idx[i] = Len(settings.MIDDLEWARE) + 1
    /\ LET view == resolve(urlpatterns, req[i].path)
       IN  IF view = NoValue
           THEN /\ resp' = [resp EXCEPT ![i] = HttpResponseNotFound]
                /\ trace' = [trace EXCEPT ![i] = Append(@, "resolver404")]
           ELSE /\ resp' = [resp EXCEPT ![i] = CallView(view, req[i])]
                /\ trace' = [trace EXCEPT ![i] = Append(@, view)]
    /\ pc' = [pc EXCEPT ![i] = "out"]
    /\ idx' = [idx EXCEPT ![i] = Len(settings.MIDDLEWARE)]
    /\ UNCHANGED <<settings, urlpatterns, server, req>>

\* CommonMiddleware.process_response
CommonOut(i) ==
    /\ pc[i] = "out"
    /\ idx[i] >= 1
    /\ settings.MIDDLEWARE[idx[i]] = CommonMiddleware
    /\ resp' = [resp EXCEPT ![i] =
                   common_process_response(req[i], @, settings, urlpatterns)]
    /\ trace' = [trace EXCEPT ![i] = Append(@, "common_out")]
    /\ idx' = [idx EXCEPT ![i] = @ - 1]
    /\ UNCHANGED <<settings, urlpatterns, server, req, pc>>

\* CorsMiddleware on the way out: add_response_headers
CorsOut(i) ==
    /\ pc[i] = "out"
    /\ idx[i] >= 1
    /\ settings.MIDDLEWARE[idx[i]] = CorsMiddleware
    /\ resp' = [resp EXCEPT ![i] = add_response_headers(req[i], @, settings)]
    /\ trace' = [trace EXCEPT ![i] = Append(@, "cors_out")]
    /\ idx' = [idx EXCEPT ![i] = @ - 1]
    /\ UNCHANGED <<settings, urlpatterns, server, req, pc>>

\* the response leaves the outermost middleware and is sent
Send(i) ==
    /\ pc[i] = "out"
    /\ idx[i] = 0
    /\ pc' = [pc EXCEPT ![i] = "sent"]
    /\ UNCHANGED <<settings, urlpatterns, server, req, idx, resp, trace>>

\* the worker is free for the next request
Finish(i) ==
    /\ pc[i] = "sent"
    /\ pc' = [pc EXCEPT ![i] = "idle"]
    /\ req' = [req EXCEPT ![i] = NoRequest]
    /\ resp' = [resp EXCEPT ![i] = NoResponse]
    /\ trace' = [trace EXCEPT ![i] = <<>>]
    /\ idx' = [idx EXCEPT ![i] = 0]
    /\ UNCHANGED <<settings, urlpatterns, server>>

\* the steps between receiving a request and sending its response
Serve(i) ==
    \/ ServeStatic(i)
    \/ EnterChain(i)
    \/ CorsIn(i)
    \/ CommonIn(i)
    \/ GetResponse(i)
    \/ CommonOut(i)
    \/ CorsOut(i)
    \/ Send(i)

\* one worker, every request of the model
Next ==
    \/ Receive(1, Requests)
    \/ Serve(1)
    \/ Finish(1)

Spec == Init /\ [][Next]_vars

\* every worker, the core requests, in any interleaving
ConcNext ==
    \E i \in Workers :
        \/ Receive(i, CoreRequests)
        \/ Serve(i)
        \/ Finish(i)

ConcSpec == Init /\ [][ConcNext]_vars

\* a request that has been received is served to the end: no step of one
\* request waits for another request
FairSpec == ConcSpec /\ \A i \in Workers : WF_vars(Serve(i))

(***************************************************************************)
(* Vocabulary of the properties                                            *)
(***************************************************************************)
RootPath == <<"/">>
HealthPath == <<"/", "health", "/">>
HealthNoSlash == <<"/", "health">>
AssetPath == <<"/", "static", "/", "x">>

HomeJson ==
    "{\"message\": \"Django Python API - Testing Auto-Docker Extension\"}"
HealthJson == "{\"status\": \"healthy\"}"

Views == {"home", "health"}

\* Host values of the form name or name:port
WellFormedHosts ==
    {<<"localhost">>, <<"evil.test">>, <<"localhost", ":", "8000">>}

\* Origin values that are not empty and that urlsplit parses
ParsedOrigins == {<<"https://", "app.test">>, <<"http://", "[", "::1", "]">>}

Preflight(i) == req[i].method = "OPTIONS" /\ req[i].acrm

Sent(i) == pc[i] = "sent"

ViaChain(i) == trace[i] # <<>> /\ trace[i][1] # "static"

Ran(i, view) == view \in Range(trace[i])

(***************************************************************************)
(* C1 and C2: the two routes                                               *)
(***************************************************************************)
\* C1 as stated: every GET request whose path is exactly "/" is dispatched
\* to home and answered 200 with the body {"message": "Django Python API -
\* Testing Auto-Docker Extension"}.
C1_Original ==
    \A i \in Workers :
        (Sent(i) /\ req[i].method = "GET" /\ req[i].path = RootPath)
        => /\ Ran(i, "home") /\ ~Ran(i, "health")
           /\ resp[i].status = 200
           /\ resp[i].content = HomeJson

\* C1 amended: every GET request whose path is exactly "/" and whose Host
\* header is a well-formed host name (optionally with a port) is dispatched
\* to home and answered 200 with exactly that body.
C1_HomeRoute ==
    \A i \in Workers :
        (Sent(i) /\ req[i].method = "GET" /\ req[i].path = RootPath
                 /\ req[i].host \in WellFormedHosts)
        => /\ Ran(i, "home") /\ ~Ran(i, "health")
           /\ resp[i].status = 200
           /\ resp[i].content = HomeJson

C1_Witness ==
    \E i \in Workers :
        /\ Sent(i) /\ req[i].method = "GET" /\ req[i].path = RootPath
        /\ req[i].host = <<"evil.test">>
        /\ Ran(i, "home") /\ resp[i].status = 200

\* C2 as stated: every GET request whose path is exactly "/health/" is
\* dispatched to health and answered 200 with the body {"status": "healthy"}.
C2_Original ==
    \A i \in Workers :
        (Sent(i) /\ req[i].method = "GET" /\ req[i].path = HealthPath)
        => /\ Ran(i, "health") /\ ~Ran(i, "home")
           /\ resp[i].status = 200
           /\ resp[i].content = HealthJson

\* C2 amended: every GET request whose path is exactly "/health/" and whose
\* Host header is a well-formed host name (optionally with a port) is
\* dispatched to health and answered 200 with exactly {"status": "healthy"}.
C2_HealthRoute ==
    \A i \in Workers :
        (Sent(i) /\ req[i].method = "GET" /\ req[i].path = HealthPath
                 /\ req[i].host \in WellFormedHosts)
        => /\ Ran(i, "health") /\ ~Ran(i, "home")
           /\ resp[i].status = 200
           /\ resp[i].content = HealthJson

C2_Witness ==
    \E i \in Workers :
        /\ Sent(i) /\ req[i].method = "GET" /\ req[i].path = HealthPath
        /\ req[i].host = <<"localhost", ":", "8000">>
        /\ Ran(i, "health") /\ resp[i].status = 200

(***************************************************************************)
(* C3: unrouted paths                                                      *)
(***************************************************************************)
\* C3 as stated: for every request whose path is neither "/" nor
\* "/health/" no view of this repository runs and the response is the
\* default not-found response, status 404.
C3_Original ==
    \A i \in Workers :
        (Sent(i) /\ req[i].path \notin {RootPath, HealthPath})
        => /\ ~Ran(i, "home") /\ ~Ran(i, "health")
           /\ resp[i].status = 404

\* C3 amended: for every request whose path is neither "/" nor "/health/"
\* no view of this repository runs.  The response is the default not-found
\* response (404) when the request reaches the URL resolver and the path
\* is not "/health": that is, the Host header is well formed, the request
\* is not a CORS preflight, and the path is not an existing static asset
\* answered by the development server.  "/health" is not answered 404: it
\* is redirected (301) to "/health/", or answered 500 under DEBUG when the
\* method is POST, PUT, PATCH or DELETE.
C3_Unrouted ==
    \A i \in Workers :
        req[i].path \notin {RootPath, HealthPath}
        => /\ ~Ran(i, "home") /\ ~Ran(i, "health")
           /\ (Sent(i) /\ req[i].host \in WellFormedHosts /\ ~Preflight(i)
                       /\ req[i].path # HealthNoSlash
                       /\ ~(server = "runserver" /\ req[i].path = AssetPath))
              => resp[i].status = 404
           /\ (Sent(i) /\ req[i].host \in WellFormedHosts /\ ~Preflight(i)
                       /\ req[i].path = HealthNoSlash)
              => IF req[i].method \in UnsafeMethods
                 THEN resp[i].status = 500
                 ELSE resp[i].status = 301 /\ resp[i].location = HealthPath

C3_Witness ==
    \E i \in Workers :
        /\ Sent(i) /\ req[i].path = <<"/", "health", "/", "x">>
        /\ req[i].host \in WellFormedHosts /\ ~Preflight(i)
        /\ "resolver404" \in Range(trace[i])
        /\ resp[i].status = 404

(***************************************************************************)
(* C4: content type of the views' responses                                *)
(***************************************************************************)
\* C4: every response produced by home or by health declares the content
\* type application/json, from the view's return until it is sent.
C4_JsonContentType ==
    \A i \in Workers :
        (pc[i] \in {"out", "sent"} /\ (Ran(i, "home") \/ Ran(i, "health")))
        => resp[i].ctype = "application/json"

C4_Witness ==
    \E i \in Workers :
        /\ Sent(i) /\ Ran(i, "health") /\ req[i].method = "POST"
        /\ resp[i].ctype = "application/json"

(***************************************************************************)
(* C5: CORS                                                                *)
(***************************************************************************)
\* C5 as stated: for every request that carries an Origin header, whatever
\* its value, and for every path, the response that leaves the middleware
\* chain carries an allow-origin header that admits that origin.
C5_Original ==
    \A i \in Workers :
        (Sent(i) /\ ViaChain(i) /\ req[i].origin # NoHeader)
        => resp[i].allow_origin \in {<<"*">>, req[i].origin}

\* C5 amended: for every request that carries an Origin header whose value
\* is not empty and parses as a URL, and for every path, the response that
\* leaves the middleware chain carries Access-Control-Allow-Origin: *, which
\* admits that origin; no such origin is rejected.  For an empty or
\* unparsable Origin value no allow-origin header is added.
C5_AllOrigins ==
    \A i \in Workers :
        (Sent(i) /\ ViaChain(i))
        => /\ req[i].origin \in ParsedOrigins => resp[i].allow_origin = <<"*">>
           /\ req[i].origin \notin ParsedOrigins
              => resp[i].allow_origin = NoHeader

C5_Witness ==
    \E i \in Workers :
        /\ Sent(i) /\ ViaChain(i)
        /\ req[i].origin = <<"https://", "app.test">>
        /\ resp[i].status = 404
        /\ resp[i].allow_origin = <<"*">>

C7_Original ==
    /\ static_url(settings) = <<"/", "static", "/">>
    /\ \A i \in Workers :
          (Sent(i) /\ req[i].path = AssetPath)
          => resp[i].status = 200 /\ resp[i].content = "<asset>"

\* C7 amended: the static URL prefix in effect is "/static/" (with the
\* leading slash).  A request for an existing static asset under that
\* prefix is answered with the asset when the project runs under the
\* development server with the staticfiles handler; under any other server
\* nothing in the project serves the asset: the request goes through the
\* middleware and the URL resolver like any unrouted path and is answered
\* with a not-found response.
C7_StaticPrefix ==
    /\ static_url(settings) = <<"/", "static", "/">>
    /\ \A i \in Workers :
          (Sent(i) /\ req[i].path = AssetPath)
          => IF server = "runserver"
             THEN resp[i].status = 200 /\ resp[i].content = "<asset>"
             ELSE /\ resp[i].content # "<asset>"
                  /\ ~Ran(i, "home") /\ ~Ran(i, "health")
                  /\ (req[i].host \in WellFormedHosts /\ ~Preflight(i))
                     => resp[i].status = 404

C7_Witness ==
    \E i \in Workers :
        /\ Sent(i) /\ req[i].path = AssetPath /\ server = "runserver"
        /\ trace[i] = <<"static">>
        /\ resp[i].content = "<asset>"

(***************************************************************************)
(* C8: the views ignore the request                                        *)
(***************************************************************************)
\* the constant payload of a view
PayloadOf(view) == IF view = "home" THEN HomeJson ELSE HealthJson

\* C8 as stated, its last part: a non-GET request to "/" or "/health/" is
\* not refused and gets the same 200 payload as a GET request.
C8_Original ==
    \A i \in Workers :
        (Sent(i) /\ req[i].path \in {RootPath, HealthPath}
                 /\ req[i].method # "GET" /\ req[i].host \in WellFormedHosts)
        => /\ resp[i].status = 200
           /\ resp[i].content =
                 IF req[i].path = RootPath THEN HomeJson ELSE HealthJson

\* C8 amended: for any two requests routed to the same view the status,
\* content type and body of the two responses are identical (200,
\* application/json, the view's constant payload), whatever the requests'
\* method, headers, query string or body; a non-GET request to "/" or
\* "/health/" that reaches the view gets the same 200 payload.  Not every
\* non-GET request reaches the view: a CORS preflight (OPTIONS carrying
\* Access-Control-Request-Method) is answered by CorsMiddleware with an
\* empty 200 response and the view does not run.
C8_ConstantViews ==
    \A i \in Workers :
        /\ \A view \in Views :
              (pc[i] \in {"out", "sent"} /\ Ran(i, view))
              => /\ resp[i].status = 200
                 /\ resp[i].ctype = "application/json"
                 /\ resp[i].content = PayloadOf(view)
        /\ (Sent(i) /\ req[i].path \in {RootPath, HealthPath}
                    /\ req[i].host \in WellFormedHosts)
           => IF Preflight(i)
              THEN /\ ~Ran(i, "home") /\ ~Ran(i, "health")
                   /\ resp[i].status = 200 /\ resp[i].content = ""
              ELSE /\ Ran(i, IF req[i].path = RootPath THEN "home"
                             ELSE "health")
                   /\ resp[i].status = 200

C8_Witness ==
    \E i \in Workers :
        /\ Sent(i) /\ req[i].path = RootPath /\ req[i].method = "POST"
        /\ req[i].origin = <<>> /\ req[i].acrm
        /\ Ran(i, "home")
        /\ resp[i].content = HomeJson

(***************************************************************************)
(* C9: no shared mutable state                                             *)
(***************************************************************************)
\* the response to request r when it is the only request ever served: the
\* view inside CommonMiddleware inside CorsMiddleware, over the module-level
\* values as loaded
ViewAlone(r) ==
    LET view == resolve(UrlPatterns, r.path)
    IN  IF view = NoValue THEN HttpResponseNotFound ELSE CallView(view, r)

CommonAlone(r) ==
    IF get_host_ok(r, Settings)
    THEN common_process_response(r, ViewAlone(r), Settings, UrlPatterns)
    ELSE HttpResponseBadRequest

CorsAlone(r) ==
    add_response_headers(r,
        IF is_preflight(r) THEN preflight_response ELSE CommonAlone(r),
        Settings)

AloneResponse(r, srv) ==
    IF uses_static_handler(srv, Settings) /\ should_handle(r.path, Settings)
    THEN static_serve(r.path, Settings)
    ELSE CorsAlone(r)

C9_SameAsAlone ==
    \A i \in Workers : Sent(i) => resp[i] = AloneResponse(req[i], server)

C9_ModuleStateUnchanged ==
    [][urlpatterns' = urlpatterns /\ settings' = settings]_vars

C9_Answered ==
    \A i \in Workers : (pc[i] = "recv") ~> Sent(i)

\* C9: under any interleaving of concurrent requests each request gets
\* exactly the response it would get if it were the only request ever
\* served, every received request is answered, and urlpatterns and the
\* settings are left unchanged by every step.
C9_NoSharedState ==
    /\ []C9_SameAsAlone
    /\ C9_ModuleStateUnchanged
    /\ C9_Answered

\* two requests in flight at once: one answered by a view while the other
\* has passed the resolver and is on its way out
C9_Witness ==
    \E i, j \in Workers :
        /\ i # j
        /\ Sent(i) /\ Ran(i, "home")
        /\ pc[j] = "out" /\ "resolver404" \in Range(trace[j])
        /\ urlpatterns = UrlPatterns

(***************************************************************************)
(* C10: order of the middleware                                            *)
(***************************************************************************)
ResolverSteps == {"home", "health", "resolver404"}

\* C10: a request passes CorsMiddleware first and CommonMiddleware second
\* on the way in and the reverse on the way out, so every response made by
\* CommonMiddleware or by the URL resolver goes through the CORS response
\* step before it is sent; a request to "/health" never runs health.
C10_MiddlewareOrder ==
    \A i \in Workers :
        LET t == trace[i]
        IN  /\ \A k \in 1..Len(t) :
                  /\ t[k] = "common_in" => (k = 2 /\ t[1] = "cors_in")
                  /\ t[k] \in ResolverSteps
                     => (k = 3 /\ t[1] = "cors_in" /\ t[2] = "common_in")
                  /\ t[k] = "common_out" => (k = 4 /\ t[3] \in ResolverSteps)
                  /\ t[k] = "cors_out" => (k = Len(t) /\ t[1] = "cors_in")
            /\ (Sent(i) /\ ViaChain(i))
               => /\ t[1] = "cors_in"
                  /\ t[Len(t)] = "cors_out"
                  /\ resp[i].vary = "origin"
            /\ req[i].path = HealthNoSlash => ~Ran(i, "health")

\* the redirect of "/health" made by CommonMiddleware has passed the CORS
\* response step
C10_Witness ==
    \E i \in Workers :
        /\ Sent(i) /\ req[i].path = HealthNoSlash
        /\ trace[i] = <<"cors_in", "common_in", "resolver404",
                        "common_out", "cors_out">>
        /\ resp[i].status = 301
        /\ resp[i].allow_origin = <<"*">>

====
